---- MODULE Spec2Model ----
(***************************************************************************)
(* Model of the P2P content loader (src/p2p-storage.js) and of its         *)
(* image-only variant (src/p2p-image.js).                                  *)
(*                                                                         *)
(* Both scripts are one IIFE with the same private state (localPeer and    *)
(* the connections Map) and the same control flow; they differ in the wire *)
(* schema, in the value a fetch resolves with and in the page scanner.     *)
(* The variable `variant` says which script the behaviour is about.        *)
(*                                                                         *)
(* JavaScript runs jobs to completion: every action below is one job, an   *)
(* event callback of the transport (a macrotask) or a promise continuation *)
(* (a microtask).  Macrotasks run only when no microtask is queued.        *)
(***************************************************************************)
EXTENDS Integers, Sequences, FiniteSets, TLC

VARIABLES
    variant,      \* "content" (p2p-storage.js) or "image" (p2p-image.js)
    doc,          \* the page: the static attributes of its elements
    dom,          \* the elements' mutable properties
    localPeer,    \* 0 is null, n > 0 is the n-th Peer object constructed
    peerStatus,   \* what the current Peer object has signalled
    peerError,    \* the error the Peer object signalled with 'error'
    peersCreated, \* number of `new Peer()` evaluations
    conns,        \* every DataConnection localPeer.connect() has returned
    connections,  \* the pool: peer identifier -> index into conns, 0 if absent
    fetch,        \* the fetchContent/fetchImage calls, one per scan and element
    scan          \* the invocations of loadP2PContent/loadP2PImages

vars == <<variant, doc, dom, localPeer, peerStatus, peerError, peersCreated,
          conns, connections, fetch, scan>>

----------------------------------------------------------------------------
(* Bounds and input universes *)

\* Invocations of the page scanner: the automatic one and manual re-scans.
MaxScans == 2

\* fetchContent/fetchImage calls in one behaviour: a scan starts only when
\* the calls it will make fit.
MaxFetches == 2


Peers == {"p1", "p2"}
Names == {"a", "b"}

UNDEFINED == "undefined"
NoValue == [kind |-> "none"]

\* Data URIs a host may put in a response.
DataPng == "data:image/png;base64,iVBORw0KGgo="
DataTxt == "data:text/plain;base64,aGVsbG8="
DataBad == "data:text/plain;base64,%%%"
Data == {DataPng, DataTxt}

\* What a host may answer a request with: the data and the mimeType of a
\* content response (absent from a response that names none).
Payloads == {[data |-> DataPng, mimeType |-> "image/png"],
             [data |-> DataTxt, mimeType |-> UNDEFINED]}

ErrorTexts == {"not found", "denied"}
PeerErrors == {[kind |-> "PeerError", type |-> "network"]}
ConnErrors == {[kind |-> "ConnError", type |-> "negotiation-failed"]}

\* Inbound wire messages (spec section 6); the host is a black box and may
\* send any of them at any time on an open connection.
ContentMsgs == {[type |-> "content", contentName |-> n, data |-> p.data,
                 mimeType |-> p.mimeType] : n \in Names, p \in Payloads}
ImageMsgs == [type : {"image"}, imageName : Names, data : Data]
ErrorMsgs == [type : {"error"}, message : ErrorTexts]
OtherMsgs == {[type |-> "ping"]}
Inbound == ContentMsgs \cup ImageMsgs \cup ErrorMsgs \cup OtherMsgs

\* The messages the host of one script sends: its own response schema, error
\* messages and messages of an unrelated type.
InboundOf(v) ==
    (IF v = "content" THEN ContentMsgs ELSE ImageMsgs) \cup ErrorMsgs \cup OtherMsgs

\* Property access: a missing property reads as undefined.
Get(m, k) == IF k \in DOMAIN m THEN m[k] ELSE UNDEFINED

\* A truthy string: neither undefined nor empty.
Truthy(s) == s # UNDEFINED /\ s # ""

----------------------------------------------------------------------------
(* The page *)

\* An element as the page's markup gives it: its tag, its data-p2p-src, its
\* inline opacity and its own (fallback) content.
Elem(tag, parts, opacity, content) ==
    [tag |-> tag, p2pSrc |-> parts, opacity |-> opacity, content |-> content]

NoContent == << >>
Fallback == <<[node |-> "#text", text |-> "loading..."]>>

\* data-p2p-src is kept as the result of p2pSrc.split(':').
Doc1 == << Elem("img", <<"p1", "a">>, "", NoContent),
           Elem("img", <<"p1", "b">>, "0.8", NoContent) >>
Doc2 == << Elem("div", <<"p1", "a">>, "0.8", Fallback),
           Elem("img", <<"p2", "a">>, "", NoContent) >>
Doc3 == << Elem("img", <<"nocolon">>, "", NoContent),
           Elem("img", <<"p1", "a", "x">>, "", NoContent) >>
Docs == {Doc1, Doc2, Doc3}

\* const [peerId, contentName] = p2pSrc.split(':')
ParsePeerId(parts) == IF Len(parts) >= 1 THEN parts[1] ELSE UNDEFINED
ParseContentName(parts) == IF Len(parts) >= 2 THEN parts[2] ELSE UNDEFINED

\* if (!peerId || !contentName) ... continue
ValidSrc(parts) == Truthy(ParsePeerId(parts)) /\ Truthy(ParseContentName(parts))

ElemIdx == 1..Len(doc)
Scans == 1..MaxScans
FetchIds == Scans \X ElemIdx

InitialDom(d) ==
    [i \in 1..Len(d) |->
        [opacity |-> d[i].opacity, title |-> "", alt |-> "", src |-> "",
         content |-> d[i].content]]

----------------------------------------------------------------------------
(* renderContent (p2p-storage.js only) *)

\* String.prototype.startsWith on the MIME types a host may name: the part of
\* the type up to and including the slash.
MimePrefix(m) ==
    CASE m = "image/png"       -> "image/"
      [] m = "video/mp4"       -> "video/"
      [] m = "audio/mpeg"      -> "audio/"
      [] m = "application/pdf" -> "application/"
      [] m = "application/zip" -> "application/"
      [] m = "text/html"       -> "text/"
      [] m = "text/plain"      -> "text/"
      [] OTHER                 -> ""

\* Mutant of StartsWith: the type is compared with ===.
StartsWithExact(m, prefix) == m = prefix

StartsWith(m, prefix) == MimePrefix(m) = prefix

\* contentData.split(',')[1]
Base64Part(d) ==
    CASE d = DataPng -> "iVBORw0KGgo="
      [] d = DataTxt -> "aGVsbG8="
      [] d = DataBad -> "%%%"
      [] OTHER       -> UNDEFINED

\* atob: the decoded text, or a throw on input that is not base64
\* (atob(undefined) decodes the string "undefined", which is not base64).
Atob(b) ==
    CASE b = "aGVsbG8="     -> [threw |-> FALSE, text |-> "hello"]
      [] b = "iVBORw0KGgo=" -> [threw |-> FALSE, text |-> "\\x89PNG"]
      [] OTHER              -> [threw |-> TRUE, text |-> ""]

NativeTags == {"img", "video", "audio", "iframe"}

\* The generic-container branch; el is the element's mutable state.
RenderGeneric(el, contentData, mimeType, fileName) ==
    IF StartsWith(mimeType, "image/") THEN
        [el EXCEPT !.content = Append(@,
            [node |-> "img", src |-> contentData, alt |-> fileName])]
    ELSE IF StartsWith(mimeType, "video/") THEN
        [el EXCEPT !.content = Append(@,
            [node |-> "video", src |-> contentData, controls |-> TRUE])]
    ELSE IF StartsWith(mimeType, "audio/") THEN
        [el EXCEPT !.content = Append(@,
            [node |-> "audio", src |-> contentData, controls |-> TRUE])]
    ELSE IF mimeType = "application/pdf" THEN
        [el EXCEPT !.content = Append(@,
            [node |-> "iframe", src |-> contentData])]
    ELSE IF StartsWith(mimeType, "text/") THEN
        LET decoded == Atob(Base64Part(contentData)) IN
        IF decoded.threw THEN
            [el EXCEPT !.content =
                <<[node |-> "#text", text |-> "Error decoding text content"]>>]
        ELSE IF mimeType = "text/html" THEN
            [el EXCEPT !.content = <<[node |-> "#html", markup |-> decoded.text]>>]
        ELSE
            [el EXCEPT !.content = Append(@,
                [node |-> "pre", text |-> decoded.text])]
    ELSE
        [el EXCEPT !.content = Append(@,
            [node |-> "a", href |-> contentData, download |-> fileName,
             text |-> "Download " \o fileName])]

\* renderContent(element, contentData, mimeType, fileName): whether it threw,
\* and the element afterwards.  mimeType.startsWith throws a TypeError when
\* the response carried no mimeType.
renderContent(tag, el, contentData, mimeType, fileName) ==
    IF tag \in NativeTags THEN
        [threw |-> FALSE, el |-> [el EXCEPT !.src = contentData]]
    ELSE IF mimeType = UNDEFINED THEN
        [threw |-> TRUE, el |-> el]
    ELSE
        [threw |-> FALSE, el |-> RenderGeneric(el, contentData, mimeType, fileName)]

----------------------------------------------------------------------------
(* requestContent / requestImage: the data listener of one request *)

\* Mutant of NewError: the host's message is dropped.
NewErrorGeneric(message) == [kind |-> "Error", message |-> "request failed"]

\* new Error(data.message)
NewError(message) == [kind |-> "Error", message |-> message]

NoEffect == [off |-> FALSE, settle |-> "none", value |-> NoValue]

\* dataHandler of requestContent
dataHandlerContent(contentName, data) ==
    IF Get(data, "type") = "content" /\ Get(data, "contentName") = contentName THEN
        [off |-> TRUE, settle |-> "resolved",
         value |-> [data |-> Get(data, "data"),
                    mimeType |-> Get(data, "mimeType"),
                    fileName |-> Get(data, "contentName")]]
    ELSE IF Get(data, "type") = "error" THEN
        [off |-> TRUE, settle |-> "rejected", value |-> NewError(Get(data, "message"))]
    ELSE NoEffect

\* dataHandler of requestImage: resolves with the bare data.
dataHandlerImage(imageName, data) ==
    IF Get(data, "type") = "image" /\ Get(data, "imageName") = imageName THEN
        [off |-> TRUE, settle |-> "resolved", value |-> [bare |-> Get(data, "data")]]
    ELSE IF Get(data, "type") = "error" THEN
        [off |-> TRUE, settle |-> "rejected", value |-> NewError(Get(data, "message"))]
    ELSE NoEffect

\* Mutant of dataHandler: an error message is taken only when it names the
\* request's content.
dataHandlerErrorByName(v, name, data) ==
    IF Get(data, "type") = "error" /\ Get(data, "contentName") # name THEN NoEffect
    ELSE IF v = "content" THEN dataHandlerContent(name, data)
    ELSE dataHandlerImage(name, data)

\* Mutant of dataHandler: conn.off is forgotten.
dataHandlerNoOff(v, name, data) ==
    [(IF v = "content" THEN dataHandlerContent(name, data)
      ELSE dataHandlerImage(name, data)) EXCEPT !.off = FALSE]

\* Mutant of dataHandler: a response is accepted whatever name it carries.
dataHandlerAnyName(v, name, data) ==
    IF v = "content" THEN dataHandlerContent(Get(data, "contentName"), data)
    ELSE dataHandlerImage(Get(data, "imageName"), data)

dataHandler(v, name, data) ==
    IF v = "content" THEN dataHandlerContent(name, data)
    ELSE dataHandlerImage(name, data)

\* conn.send({type: 'request', contentName}) / ({type: 'request', imageName})
RequestMessage(v, name) ==
    IF v = "content" THEN [type |-> "request", contentName |-> name]
    ELSE [type |-> "request", imageName |-> name]

\* resolve(v) / reject(e) of a promise: only a pending promise settles.
Settle(fr, how, value) ==
    IF fr.promise = "pending" /\ how # "none"
    THEN [fr EXCEPT !.promise = how, !.value = value]
    ELSE fr

\* One run of a fetch's dataHandler with outcome out.  `ignored` records
\* that the handler, while attached, has let a message pass (history only).
Handled(fr, out) ==
    IF out.off THEN [Settle(fr, out.settle, out.value) EXCEPT !.ignored = FALSE]
    ELSE [fr EXCEPT !.ignored = TRUE]

----------------------------------------------------------------------------
(* State after the script has been evaluated *)

IdleFetch == [pc |-> "idle", peerId |-> "", name |-> "", promise |-> "none",
              value |-> NoValue, conn |-> 0, peerAtCall |-> "", initValue |-> 0,
              ignored |-> FALSE]

IdleScan == [pc |-> "idle", elements |-> << >>, pos |-> 0,
             originalOpacity |-> UNDEFINED]

Init ==
    /\ variant \in {"content", "image"}
    /\ doc \in Docs
    /\ dom = InitialDom(doc)
    /\ localPeer = 0
    /\ peerStatus = "none"
    /\ peerError = NoValue
    /\ peersCreated = 0
    /\ conns = << >>
    /\ connections = [p \in Peers |-> 0]
    /\ fetch = [f \in (Scans \X (1..Len(doc))) |-> IdleFetch]
    /\ scan = [s \in Scans |-> IdleScan]

----------------------------------------------------------------------------
(* Jobs *)

\* The element a scan is awaiting the fetch of.
CurrentElem(s) == scan[s].elements[scan[s].pos]

Settled(f) == fetch[f].promise \in {"resolved", "rejected"}

\* A promise continuation is queued: the rest of fetchContent after
\* `await initPeer()`, or the rest of the scanner's loop after `await fetch`.
MicrotaskPending ==
    \/ \E f \in DOMAIN fetch : fetch[f].pc \in {"initResolved", "initRejected"}
    \/ \E s \in Scans : scan[s].pc = "await" /\ Settled(<<s, CurrentElem(s)>>)

\* Mutant of HasLocalPeer: initPeer without its guard constructs a Peer on
\* every call.
HasLocalPeerNever == FALSE

\* initPeer, line 27: if (localPeer) return Promise.resolve(localPeer)
HasLocalPeer == localPeer # 0

\* Mutant of NeedsNewConnection: conn.open is not tested (`if (!conn)`).
NeedsNewConnectionIfMissing(c) == c = 0

\* Mutant of NeedsNewConnection: the pool is never consulted.
NeedsNewConnectionAlways(c) == TRUE

\* fetchContent, line 53: if (!conn || !conn.open); c is the pool's entry, 0
\* when connections.get(peerId) is undefined.
NeedsNewConnection(c) == c = 0 \/ conns[c].status # "open"

\* The first position >= from of a list of elements whose data-p2p-src
\* parses, 0 when there is none: the loop's `continue` on invalid values.
NextValidPos(elements, from) ==
    LET ok == {p \in from..Len(elements) : ValidSrc(doc[elements[p]].p2pSrc)}
    IN IF ok = {} THEN 0 ELSE CHOOSE p \in ok : \A q \in ok : p <= q

\* The scanner's loop from position `from` up to its next await: invalid
\* elements are skipped, the first valid one gets its loading state and
\* fetchContent is called for it, whose executor runs initPeer at once.
LoopFrom(s, elements, from, domIn) ==
    LET p == NextValidPos(elements, from) IN
    IF p = 0 THEN
        /\ scan' = [scan EXCEPT ![s] = [pc |-> "done", elements |-> elements,
                                        pos |-> Len(elements) + 1,
                                        originalOpacity |-> UNDEFINED]]
        /\ dom' = domIn
        /\ UNCHANGED <<fetch, localPeer, peerStatus, peersCreated>>
    ELSE
        LET i == elements[p]
            parts == doc[i].p2pSrc
        IN
        /\ scan' = [scan EXCEPT ![s] =
                [pc |-> "await", elements |-> elements, pos |-> p,
                 originalOpacity |->
                    IF variant = "content" THEN domIn[i].opacity ELSE UNDEFINED]]
        /\ dom' = [domIn EXCEPT ![i].opacity = "0.5",
                                ![i].title = "Loading from P2P..."]
        /\ fetch' = [fetch EXCEPT ![<<s, i>>] =
                [pc |-> IF HasLocalPeer THEN "initResolved" ELSE "awaitInit",
                 peerId |-> ParsePeerId(parts),
                 name |-> ParseContentName(parts),
                 promise |-> "pending", value |-> NoValue, conn |-> 0,
                 peerAtCall |-> peerStatus,
                 initValue |-> IF HasLocalPeer THEN localPeer ELSE 0,
                 ignored |-> FALSE]]
        /\ IF HasLocalPeer
           THEN UNCHANGED <<localPeer, peerStatus, peersCreated>>
           ELSE /\ localPeer' = peersCreated + 1
                /\ peersCreated' = peersCreated + 1
                /\ peerStatus' = "pending"

\* document.querySelectorAll: every tagged element, or every tagged img.
QueryElements ==
    LET RECURSIVE Pick(_)
        Pick(i) == IF i > Len(doc) THEN << >>
                   ELSE IF variant = "content" \/ doc[i].tag = "img"
                        THEN <<i>> \o Pick(i + 1)
                        ELSE Pick(i + 1)
    IN Pick(1)

\* The fetch calls one scan of the page makes, and those of the scans
\* started so far.
CallsOfScan ==
    Cardinality({p \in 1..Len(QueryElements) :
                    ValidSrc(doc[QueryElements[p]].p2pSrc)})
Committed == Cardinality({s \in Scans : scan[s].pc # "idle"}) * CallsOfScan

\* loadP2PContent / loadP2PImages is invoked (on DOMContentLoaded, or by the
\* page through the global), and runs up to its first await.
loadP2PContent(s) ==
    /\ ~MicrotaskPending
    /\ scan[s].pc = "idle"
    /\ IF s = 1 THEN TRUE ELSE scan[s - 1].pc # "idle"
    /\ Committed + CallsOfScan <= MaxFetches
    /\ LoopFrom(s, QueryElements, 1, dom)
    /\ UNCHANGED <<variant, doc, peerError, conns, connections>>

\* The local peer signals 'open': the promise initPeer returned resolves.
PeerOpen ==
    /\ ~MicrotaskPending
    /\ peerStatus = "pending"
    /\ peerStatus' = "open"
    /\ fetch' = [f \in DOMAIN fetch |->
                    IF fetch[f].pc = "awaitInit"
                    THEN [fetch[f] EXCEPT !.pc = "initResolved",
                                          !.initValue = localPeer]
                    ELSE fetch[f]]
    /\ UNCHANGED <<variant, doc, dom, localPeer, peerError, peersCreated,
                   conns, connections, scan>>

\* The local peer signals 'error': the promise initPeer returned rejects.
PeerError(err) ==
    /\ ~MicrotaskPending
    /\ peerStatus = "pending"
    /\ peerStatus' = "error"
    /\ peerError' = err
    /\ fetch' = [f \in DOMAIN fetch |->
                    IF fetch[f].pc = "awaitInit"
                    THEN [fetch[f] EXCEPT !.pc = "initRejected"]
                    ELSE fetch[f]]
    /\ UNCHANGED <<variant, doc, dom, localPeer, peersCreated,
                   conns, connections, scan>>

\* conn.on('data', dataHandler) for fetch f on connection c.
OnData(cs, c, f) == [cs EXCEPT ![c].dataListeners = @ \cup {f}]

\* conn.send(request) for fetch f on connection c; sendLog records, for each
\* send, whether f's listener was attached and whether the connection was
\* open at that moment.
Send(cs, c, f) ==
    [cs EXCEPT ![c].sent = Append(@, RequestMessage(variant, fetch[f].name)),
               ![c].sendLog = Append(@,
                    [listening |-> f \in cs[c].dataListeners,
                     open |-> cs[c].status = "open"])]

\* Mutant of requestContent: the request is sent before the listener is
\* attached.
requestContentSendFirst(cs, c, f) == OnData(Send(cs, c, f), c, f)

\* requestContent(conn, name, resolve, reject) on connection c for fetch f:
\* the connections afterwards (listener attached, then request sent).
requestContent(cs, c, f) == Send(OnData(cs, c, f), c, f)

\* Mutant of FetchBody: the new connection is not stored in the pool
\* (connections.set is forgotten).
FetchBodyNoStore(f) ==
    /\ fetch[f].pc = "initResolved"
    /\ LET peerId == fetch[f].peerId
           c == connections[peerId]
       IN IF NeedsNewConnection(c) THEN
            LET n == Len(conns) + 1 IN
            /\ conns' = Append(conns,
                    [peer |-> peerId, status |-> "connecting", errored |-> FALSE,
                     creator |-> f, dataListeners |-> {}, sent |-> << >>,
                     sendLog |-> << >>,
                     peerStatusAtConnect |-> peerStatus,
                     replaced |-> IF c = 0 THEN "absent" ELSE conns[c].status])
            /\ fetch' = [fetch EXCEPT ![f].pc = "waitOpen", ![f].conn = n]
            /\ UNCHANGED connections
          ELSE
            /\ conns' = requestContent(conns, c, f)
            /\ fetch' = [fetch EXCEPT ![f].pc = "requested", ![f].conn = c]
            /\ UNCHANGED connections
    /\ UNCHANGED <<variant, doc, dom, localPeer, peerStatus, peerError,
                   peersCreated, scan>>

\* fetchContent after `await initPeer()` (lines 50-70).
FetchBody(f) ==
    /\ fetch[f].pc = "initResolved"
    /\ LET peerId == fetch[f].peerId
           c == connections[peerId]
       IN IF NeedsNewConnection(c) THEN
            LET n == Len(conns) + 1 IN
            /\ conns' = Append(conns,
                    [peer |-> peerId, status |-> "connecting", errored |-> FALSE,
                     creator |-> f, dataListeners |-> {}, sent |-> << >>,
                     sendLog |-> << >>,
                     peerStatusAtConnect |-> peerStatus,
                     replaced |-> IF c = 0 THEN "absent" ELSE conns[c].status])
            /\ connections' = [connections EXCEPT ![peerId] = n]
            /\ fetch' = [fetch EXCEPT ![f].pc = "waitOpen", ![f].conn = n]
          ELSE
            /\ conns' = requestContent(conns, c, f)
            /\ fetch' = [fetch EXCEPT ![f].pc = "requested", ![f].conn = c]
            /\ UNCHANGED connections
    /\ UNCHANGED <<variant, doc, dom, localPeer, peerStatus, peerError,
                   peersCreated, scan>>

\* fetchContent's catch after `await initPeer()` rejected (lines 71-73).
FetchCatch(f) ==
    /\ fetch[f].pc = "initRejected"
    /\ fetch' = [fetch EXCEPT ![f] = [Settle(@, "rejected", peerError)
                                        EXCEPT !.pc = "failed"]]
    /\ UNCHANGED <<variant, doc, dom, localPeer, peerStatus, peerError,
                   peersCreated, conns, connections, scan>>

\* The connection signals 'open': the handler of lines 58-61 runs.
ConnOpen(c) ==
    /\ ~MicrotaskPending
    /\ conns[c].status = "connecting"
    /\ LET f == conns[c].creator IN
        /\ conns' = requestContent([conns EXCEPT ![c].status = "open"], c, f)
        /\ fetch' = [fetch EXCEPT ![f].pc = "requested"]
    /\ UNCHANGED <<variant, doc, dom, localPeer, peerStatus, peerError,
                   peersCreated, connections, scan>>

\* A fetch is waiting on connection c: for its open event or for a reply.
PendingOn(f, c) == fetch[f].promise = "pending" /\ fetch[f].conn = c

\* The connection signals 'error' (once): the handler of lines 63-66 runs,
\* which only the fetch that created the connection has registered.  An
\* error while no fetch waits on the connection runs the handler to no
\* effect and is left out.
ConnError(c, err) ==
    /\ ~MicrotaskPending
    /\ conns[c].status \in {"connecting", "open"}
    /\ ~conns[c].errored
    /\ \E f \in DOMAIN fetch : PendingOn(f, c)
    /\ conns' = [conns EXCEPT ![c].errored = TRUE]
    /\ fetch' = [fetch EXCEPT ![conns[c].creator] = Settle(@, "rejected", err)]
    /\ UNCHANGED <<variant, doc, dom, localPeer, peerStatus, peerError,
                   peersCreated, connections, scan>>

\* The transport closes the connection: conn.open reads false from now on.
ConnClose(c) ==
    /\ ~MicrotaskPending
    /\ conns[c].status = "open"
    /\ conns' = [conns EXCEPT ![c].status = "closed"]
    /\ UNCHANGED <<variant, doc, dom, localPeer, peerStatus, peerError,
                   peersCreated, connections, fetch, scan>>

\* The connection emits 'data' with message m: every attached dataHandler
\* runs on it.
Deliver(c, m) ==
    /\ ~MicrotaskPending
    /\ conns[c].status = "open"
    /\ LET ls == conns[c].dataListeners
           out(f) == dataHandler(variant, fetch[f].name, m)
       IN /\ conns' = [conns EXCEPT ![c].dataListeners =
                            {f \in ls : ~out(f).off}]
          /\ fetch' = [f \in DOMAIN fetch |->
                        IF f \in ls
                        THEN Handled(fetch[f], out(f))
                        ELSE fetch[f]]
    /\ UNCHANGED <<variant, doc, dom, localPeer, peerStatus, peerError,
                   peersCreated, connections, scan>>

\* element.style.opacity = originalOpacity || '1' (p2p-storage.js), or
\* img.style.opacity = '1' (p2p-image.js).
RestoredOpacity(original) ==
    IF variant = "content" /\ Truthy(original) THEN original ELSE "1"

\* The scanner's catch block (lines 211-220; p2p-image.js lines 123-128).
FailureState(tag, el, original, name) ==
    LET e1 == [el EXCEPT !.opacity = RestoredOpacity(original),
                         !.title = IF variant = "content"
                                   THEN "Failed to load content"
                                   ELSE "Failed to load image"]
    IN IF variant = "image" \/ tag = "img"
       THEN [e1 EXCEPT !.alt = "[Failed to load: " \o name \o "]"]
       ELSE [e1 EXCEPT !.content =
                <<[node |-> "#text", text |-> "Failed to load: " \o name]>>]

\* The scanner's try block after the fetch resolved with value v
\* (lines 206-210; p2p-image.js lines 118-122).
SuccessState(tag, el, original, name, v) ==
    IF variant = "image" THEN
        [el EXCEPT !.src = v.bare, !.opacity = "1", !.title = ""]
    ELSE
        LET r == renderContent(tag, el, v.data, v.mimeType, v.fileName) IN
        IF r.threw THEN FailureState(tag, r.el, original, name)
        ELSE [r.el EXCEPT !.opacity = RestoredOpacity(original), !.title = ""]

\* Mutant of ScanResume: a rejected fetch ends the scan (the catch block
\* returns instead of falling through to the next iteration).
ScanResumeStopOnFailure(s) ==
    /\ scan[s].pc = "await"
    /\ LET i == CurrentElem(s)
           fr == fetch[<<s, i>>]
       IN /\ Settled(<<s, i>>)
          /\ IF fr.promise = "resolved"
             THEN LoopFrom(s, scan[s].elements, scan[s].pos + 1,
                    [dom EXCEPT ![i] =
                        SuccessState(doc[i].tag, dom[i], scan[s].originalOpacity,
                                     fr.name, fr.value)])
             ELSE LoopFrom(s, scan[s].elements, Len(scan[s].elements) + 1,
                    [dom EXCEPT ![i] =
                        FailureState(doc[i].tag, dom[i], scan[s].originalOpacity,
                                     fr.name)])
    /\ UNCHANGED <<variant, doc, peerError, conns, connections>>

\* Mutant of ScanResume: the loop does not wait for the fetch to settle
\* (the await is missing).
ScanResumeNoAwait(s) ==
    /\ scan[s].pc = "await"
    /\ LET i == CurrentElem(s)
           fr == fetch[<<s, i>>]
           el == IF fr.promise = "resolved"
                 THEN SuccessState(doc[i].tag, dom[i], scan[s].originalOpacity,
                                   fr.name, fr.value)
                 ELSE dom[i]
       IN LoopFrom(s, scan[s].elements, scan[s].pos + 1, [dom EXCEPT ![i] = el])
    /\ UNCHANGED <<variant, doc, peerError, conns, connections>>

\* The scanner resumes after `await fetchContent(...)` settled: the rest of
\* the try block or the catch block, then the loop up to its next await.
ScanResume(s) ==
    /\ scan[s].pc = "await"
    /\ LET i == CurrentElem(s)
           fr == fetch[<<s, i>>]
           el == IF fr.promise = "resolved"
                 THEN SuccessState(doc[i].tag, dom[i], scan[s].originalOpacity,
                                   fr.name, fr.value)
                 ELSE FailureState(doc[i].tag, dom[i], scan[s].originalOpacity,
                                   fr.name)
       IN /\ Settled(<<s, i>>)
          /\ LoopFrom(s, scan[s].elements, scan[s].pos + 1,
                      [dom EXCEPT ![i] = el])
    /\ UNCHANGED <<variant, doc, peerError, conns, connections>>

ConnIds == 1..Len(conns)

Next ==
    \/ \E s \in Scans : loadP2PContent(s)
    \/ PeerOpen
    \/ \E err \in PeerErrors : PeerError(err)
    \/ \E f \in DOMAIN fetch : FetchBody(f)
    \/ \E f \in DOMAIN fetch : FetchCatch(f)
    \/ \E c \in ConnIds : ConnOpen(c)
    \/ \E c \in ConnIds, err \in ConnErrors : ConnError(c, err)
    \/ \E c \in ConnIds : ConnClose(c)
    \/ \E c \in ConnIds, m \in InboundOf(variant) : Deliver(c, m)
    \/ \E s \in Scans : ScanResume(s)

Spec == Init /\ [][Next]_vars

TypeOK ==
    /\ variant \in {"content", "image"}
    /\ doc \in Docs
    /\ localPeer \in 0..1
    /\ peerStatus \in {"none", "pending", "open", "error"}
    /\ \A c \in ConnIds : conns[c].status \in {"connecting", "open", "closed"}
    /\ \A p \in Peers : connections[p] \in 0..Len(conns)
    /\ \A f \in DOMAIN fetch :
        /\ fetch[f].pc \in {"idle", "awaitInit", "initResolved", "initRejected",
                            "waitOpen", "requested", "failed"}
        /\ fetch[f].promise \in {"none", "pending", "resolved", "rejected"}
    /\ \A s \in Scans : scan[s].pc \in {"idle", "await", "done"}

----------------------------------------------------------------------------
(* renderContent on its own: one element, rendered with any delivered value *)

MaxChildren == 2

RenderTags == NativeTags \cup {"div", "span"}
RenderMimes == {"image/png", "video/mp4", "audio/mpeg", "application/pdf",
                "application/zip", "text/html", "text/plain"}
RenderData == {DataPng, DataTxt, DataBad}
RenderDocs == {<<Elem(t, <<"p1", "a">>, "", c)>> :
                    t \in RenderTags, c \in {NoContent, Fallback}}

InitRender ==
    /\ variant = "content"
    /\ doc \in RenderDocs
    /\ dom = InitialDom(doc)
    /\ localPeer = 0
    /\ peerStatus = "none"
    /\ peerError = NoValue
    /\ peersCreated = 0
    /\ conns = << >>
    /\ connections = [p \in Peers |-> 0]
    /\ fetch = [f \in (Scans \X (1..Len(doc))) |-> IdleFetch]
    /\ scan = [s \in Scans |-> IdleScan]

\* renderContent(element, contentData, mimeType, fileName) on the page's
\* element.
Render(contentData, mimeType, fileName) ==
    /\ Len(dom[1].content) < MaxChildren
    /\ LET r == renderContent(doc[1].tag, dom[1], contentData, mimeType, fileName)
       IN /\ ~r.threw
          /\ dom' = [dom EXCEPT ![1] = r.el]
    /\ UNCHANGED <<variant, doc, localPeer, peerStatus, peerError,
                   peersCreated, conns, connections, fetch, scan>>

NextRender ==
    \E d \in RenderData, m \in RenderMimes, n \in Names : Render(d, m, n)

SpecRender == InitRender /\ [][NextRender]_vars

----------------------------------------------------------------------------
(* Properties *)

\* The data listener of fetch f is attached to its connection.
Attached(f) ==
    /\ fetch[f].conn # 0
    /\ f \in conns[fetch[f].conn].dataListeners

\* m is a response of the script's own schema that names n.
IsResponseFor(m, n) ==
    \/ variant = "content" /\ Get(m, "type") = "content" /\ Get(m, "contentName") = n
    \/ variant = "image" /\ Get(m, "type") = "image" /\ Get(m, "imageName") = n

IsErrorMessage(m) == Get(m, "type") = "error"

\* C1: when fetches for a peer are issued before the first connection to it
\* has opened, the later ones use the pending connection of the pool: no
\* connection is created for a peer whose pooled connection is still
\* connecting.
C1_NoDuplicateWhilePending ==
    \A c \in ConnIds : conns[c].replaced # "connecting"

\* C2: a fetch for a peer whose pooled connection is open sends its request
\* on that connection and creates no connection.
C2_ReuseOpenConnection ==
    [][\A f \in DOMAIN fetch :
        LET c == connections[fetch[f].peerId] IN
        ( /\ fetch[f].pc = "initResolved"
          /\ fetch'[f].pc # "initResolved"
          /\ c # 0
          /\ conns[c].status = "open" )
        => ( /\ Len(conns') = Len(conns)
             /\ connections' = connections
             /\ fetch'[f].conn = c
             /\ f \in conns'[c].dataListeners
             /\ conns'[c].sent =
                    Append(conns[c].sent, RequestMessage(variant, fetch[f].name)) )
      ]_vars

\* C2 witness: a fetch has completed on a connection and a second fetch has
\* sent its request on the same connection, the only one ever created.
C2_Witness ==
    \E f \in DOMAIN fetch, g \in DOMAIN fetch :
        /\ f # g
        /\ fetch[g].promise = "resolved"
        /\ fetch[f].pc = "requested"
        /\ fetch[f].conn = fetch[g].conn
        /\ Len(conns) = 1
        /\ Len(conns[1].sent) = 2

\* The value a matching response must resolve a fetch with.
ContentResult(m, n) ==
    [data |-> Get(m, "data"), mimeType |-> Get(m, "mimeType"), fileName |-> n]

C4_ErrorMessageRejects ==
    [][\A f \in DOMAIN fetch :
        (fetch[f].promise = "pending" /\ Attached(f)) =>
        \A m \in ErrorMsgs :
        Deliver(fetch[f].conn, m)
        => ( /\ ~Attached(f)'
             /\ fetch'[f].promise = "rejected"
             /\ fetch'[f].value = [kind |-> "Error", message |-> m.message] )
      ]_vars

\* C4 witness: a fetch rejected with the text of an error message, detached.
C4_Witness ==
    \E f \in DOMAIN fetch :
        /\ fetch[f].promise = "rejected"
        /\ fetch[f].pc = "requested"
        /\ ~Attached(f)
        /\ fetch[f].value = [kind |-> "Error", message |-> "denied"]

\* C5: every fetch pending on a connection, created by it or reused from the
\* pool, is rejected with the connection's error when the connection
\* signals one.
C5_ConnErrorRejectsPending ==
    [][\A f \in DOMAIN fetch, err \in ConnErrors :
        ( fetch[f].promise = "pending" /\ fetch[f].conn # 0
          /\ ConnError(fetch[f].conn, err) )
        => ( fetch'[f].promise = "rejected" /\ fetch'[f].value = err )
      ]_vars

\* The inbound messages that settle fetch f: a response naming its name, or
\* an error message.
Settling(f) ==
    {m \in InboundOf(variant) : IsResponseFor(m, fetch[f].name) \/ IsErrorMessage(m)}

\* C6: a pending fetch with its listener attached stays so in every step
\* other than the delivery, on its connection, of a response naming its name
\* or of an error message, and other than an error event of its connection:
\* wrong-name responses, unrelated messages and every other job leave it
\* pending and attached.
C6_UnmatchedLeavesPending ==
    [][\A f \in DOMAIN fetch :
        ( /\ fetch[f].promise = "pending"
          /\ Attached(f)
          /\ ~ \E m \in Settling(f) : Deliver(fetch[f].conn, m)
          /\ ~ \E err \in ConnErrors : ConnError(fetch[f].conn, err) )
        => ( fetch'[f].promise = "pending" /\ Attached(f)' )
      ]_vars

\* C6 witness: a fetch whose handler has let a message pass is still pending
\* with its listener attached.
C6_Witness ==
    \E f \in DOMAIN fetch :
        fetch[f].ignored /\ fetch[f].promise = "pending" /\ Attached(f)

\* C7: at most one local peer is ever constructed, and every initPeer call
\* that has resolved yielded that one peer.
C7_SingleLocalPeer ==
    /\ peersCreated <= 1
    /\ \A f \in DOMAIN fetch :
        fetch[f].pc \in {"initResolved", "waitOpen", "requested"}
            => fetch[f].initValue = 1 /\ localPeer = 1

\* C7 witness: two initPeer calls have resolved, one of them made while the
\* first initialization was still waiting for open.
C7_Witness ==
    \E f \in DOMAIN fetch, g \in DOMAIN fetch :
        /\ f # g
        /\ fetch[f].initValue = 1 /\ fetch[f].peerAtCall = "none"
        /\ fetch[g].initValue = 1 /\ fetch[g].peerAtCall = "pending"

\* C8: initPeer resolves only once the local peer has signalled open, so no
\* fetch continues past it, and no connect is made, before that.
C8_ConnectOnlyAfterPeerOpen ==
    /\ \A f \in DOMAIN fetch : fetch[f].pc = "initResolved" => peerStatus = "open"
    /\ \A c \in ConnIds : conns[c].peerStatusAtConnect = "open"

\* C9: once the local peer has signalled an error instead of open, every
\* fetch issued before that is rejected with that error (as soon as its
\* continuation has run) and has created no connection.
C9_PeerErrorRejectsAll ==
    peerStatus = "error" =>
        \A f \in DOMAIN fetch :
            fetch[f].peerAtCall \in {"none", "pending"} =>
                /\ fetch[f].conn = 0
                /\ ~MicrotaskPending =>
                    fetch[f].promise = "rejected" /\ fetch[f].value = peerError

C11_FailureKeepsContent ==
    [][\A s \in Scans :
        ( /\ scan[s].pc = "await"
          /\ scan'[s] # scan[s]
          /\ fetch[<<s, CurrentElem(s)>>].promise = "rejected"
          /\ fetch[<<s, CurrentElem(s)>>].value \in
                {NewError(t) : t \in ErrorTexts} )
        => LET i == CurrentElem(s)
           IN /\ dom'[i].title \in {"Failed to load content", "Failed to load image"}
              /\ dom'[i].content = dom[i].content
              /\ dom'[i].src = dom[i].src
      ]_vars

\* C12: the value of a resolved fetch is rendered into its element without
\* renderContent throwing, whatever the element's tag and whether or not the
\* response named a mimeType.
C12_RenderNeverThrows ==
    \A s \in Scans :
        ( /\ variant = "content"
          /\ scan[s].pc = "await"
          /\ fetch[<<s, CurrentElem(s)>>].promise = "resolved" )
        => LET i == CurrentElem(s)
               v == fetch[<<s, i>>].value
           IN ~renderContent(doc[i].tag, dom[i], v.data, v.mimeType, v.fileName).threw

\* The child element.appendChild added last.
LastChild(el) == el.content[Len(el.content)]

\* The element has exactly one more child than before, the others unchanged.
OneChildAdded(before, after) ==
    /\ Len(after.content) = Len(before.content) + 1
    /\ SubSeq(after.content, 1, Len(before.content)) = before.content

\* C13: rendering follows one priority order for every (tag, mimeType).  A
\* native img, video, audio or iframe gets the data as its src and nothing
\* else changes, whatever the mimeType.  Any other element gets exactly one
\* of: an img child for image/*, a video child for video/*, an audio child
\* for audio/*, an iframe child for exactly application/pdf, the decoded
\* text for text/* (as markup for exactly text/html, preformatted
\* otherwise, a fixed error text when decoding fails), and for every other
\* mimeType a download link whose download name is fileName.
C13_RenderDispatch ==
    [][\A d \in RenderData, m \in RenderMimes, n \in Names :
        Render(d, m, n) =>
        LET before == dom[1]
            after == dom'[1]
            tag == doc[1].tag
            decoded == Atob(Base64Part(d))
        IN IF tag \in {"img", "video", "audio", "iframe"}
           THEN after = [before EXCEPT !.src = d]
           ELSE /\ after.src = before.src
                /\ CASE m = "image/png" ->
                        /\ OneChildAdded(before, after)
                        /\ LastChild(after).node = "img"
                        /\ LastChild(after).src = d
                     [] m = "video/mp4" ->
                        /\ OneChildAdded(before, after)
                        /\ LastChild(after).node = "video"
                        /\ LastChild(after).src = d
                     [] m = "audio/mpeg" ->
                        /\ OneChildAdded(before, after)
                        /\ LastChild(after).node = "audio"
                        /\ LastChild(after).src = d
                     [] m = "application/pdf" ->
                        /\ OneChildAdded(before, after)
                        /\ LastChild(after).node = "iframe"
                        /\ LastChild(after).src = d
                     [] m = "text/html" ->
                        after.content =
                            IF decoded.threw
                            THEN <<[node |-> "#text",
                                    text |-> "Error decoding text content"]>>
                            ELSE <<[node |-> "#html", markup |-> decoded.text]>>
                     [] m = "text/plain" ->
                        IF decoded.threw
                        THEN after.content = <<[node |-> "#text",
                                    text |-> "Error decoding text content"]>>
                        ELSE /\ OneChildAdded(before, after)
                             /\ LastChild(after).node = "pre"
                             /\ LastChild(after).text = decoded.text
                     [] OTHER ->
                        /\ OneChildAdded(before, after)
                        /\ LastChild(after).node = "a"
                        /\ LastChild(after).href = d
                        /\ LastChild(after).download = n
      ]_vars

\* C13 witness: a generic container that was rendered into twice holds a
\* download link named after the file followed by an embedded PDF frame.
C13_Witness ==
    /\ doc[1].tag = "div"
    /\ Len(dom[1].content) = 2
    /\ dom[1].content[1].node = "a"
    /\ dom[1].content[1].download = "b"
    /\ dom[1].content[2].node = "iframe"

\* C14: every request was sent with the data listener of its fetch already
\* attached to the connection, and a fetch whose request is out and which
\* is still pending has its listener attached, so that any reply is handed
\* to it.
C14_ListenerBeforeSend ==
    /\ \A c \in ConnIds : \A k \in 1..Len(conns[c].sendLog) :
            conns[c].sendLog[k].listening
    /\ \A f \in DOMAIN fetch :
            (fetch[f].pc = "requested" /\ fetch[f].promise = "pending")
            => Attached(f)

\* C14 witness: a request went out on a connection, and the reply to it
\* found the listener and resolved the fetch.
C14_Witness ==
    \E f \in DOMAIN fetch :
        /\ fetch[f].pc = "requested"
        /\ fetch[f].promise = "resolved"
        /\ Len(conns[fetch[f].conn].sendLog) = 1
        /\ conns[fetch[f].conn].sendLog[1].listening

\* C15: every request was sent on a connection that was open at that
\* moment: a new connection's request goes out in its open handler, a
\* pooled connection's request only when the connection reads open.
C15_SendOnlyWhenOpen ==
    \A c \in ConnIds :
        /\ \A k \in 1..Len(conns[c].sendLog) : conns[c].sendLog[k].open
        /\ conns[c].status = "connecting" => conns[c].sent = << >>

\* C15 witness: one connection carried two requests, the first sent from
\* its open handler and the second by a later fetch that found it open.
C15_Witness ==
    \E c \in ConnIds :
        /\ Len(conns[c].sendLog) = 2
        /\ conns[c].sendLog[1].open
        /\ conns[c].sendLog[2].open
        /\ \E f \in DOMAIN fetch :
            fetch[f].conn = c /\ f # conns[c].creator /\ fetch[f].pc = "requested"

\* C16: on every connection at most one pending fetch per content name has
\* its data listener attached, also when fetches for the same name on the
\* same peer overlap.
C16_OneListenerPerName ==
    \A c \in ConnIds : \A f, g \in conns[c].dataListeners :
        ( /\ fetch[f].promise = "pending"
          /\ fetch[g].promise = "pending"
          /\ fetch[f].name = fetch[g].name )
        => f = g

\* C17: the pool maps a peer to one connection, which is a connection to
\* that peer.  A fetch for a peer whose pooled connection is missing or not
\* open creates a connection, stores it under the peer in place of the old
\* entry and touches no other connection; its request then goes out on the
\* connection it created, when that connection opens, and on no other.
C17_StaleEntryReplaced ==
    [][\A f \in DOMAIN fetch :
        LET p == fetch[f].peerId
            c == fetch[f].conn
        IN /\ \A q \in Peers :
                connections'[q] # 0 => conns'[connections'[q]].peer = q
           /\ ( /\ fetch[f].pc = "initResolved"
                /\ fetch'[f].pc # "initResolved"
                /\ IF connections[p] = 0 THEN TRUE
                   ELSE conns[connections[p]].status # "open" )
              => /\ conns' = Append(conns, conns'[Len(conns) + 1])
                 /\ conns'[Len(conns) + 1].peer = p
                 /\ conns'[Len(conns) + 1].status = "connecting"
                 /\ conns'[Len(conns) + 1].sent = << >>
                 /\ connections' = [connections EXCEPT ![p] = Len(conns) + 1]
                 /\ fetch'[f].conn = Len(conns) + 1
           /\ ( /\ fetch[f].pc = "waitOpen"
                /\ fetch'[f].pc = "requested" )
              => /\ conns[c].creator = f
                 /\ fetch'[f].conn = c
                 /\ conns'[c].sent =
                        Append(conns[c].sent, RequestMessage(variant, fetch[f].name))
                 /\ \A d \in ConnIds \ {c} : conns'[d] = conns[d]
      ]_vars

\* C17 witness: the pooled connection of a peer had closed; a later fetch
\* for the peer created a second connection, which replaced it in the pool
\* and carried the fetch's request once open, the closed one carrying
\* nothing more.
C17_Witness ==
    \E c \in ConnIds, f \in DOMAIN fetch :
        /\ conns[c].replaced = "closed"
        /\ conns[c].creator = f
        /\ connections[conns[c].peer] = c
        /\ conns[c].status = "open"
        /\ Len(conns[c].sent) = 1
        /\ fetch[f].pc = "requested"
        /\ fetch[f].conn = c
        /\ \E d \in ConnIds :
            /\ d # c
            /\ conns[d].peer = conns[c].peer
            /\ conns[d].status = "closed"
            /\ Len(conns[d].sent) = 1

\* C18: an error message arriving on a connection detaches every data
\* listener attached to it and leaves every fetch that had one rejected,
\* whatever name the fetch asked for; those still pending are rejected with
\* the message's text.
C18_ErrorRejectsAllListeners ==
    [][\A c \in ConnIds :
        conns[c].dataListeners # {} =>
        \A m \in ErrorMsgs :
        Deliver(c, m) =>
            /\ conns'[c].dataListeners = {}
            /\ \A f \in conns[c].dataListeners :
                /\ fetch'[f].promise = "rejected"
                /\ fetch[f].promise = "pending"
                    => fetch'[f].value = NewError(Get(m, "message"))
      ]_vars

\* C18 witness: two fetches on one connection have just been rejected by
\* the same error message: neither scanner has resumed yet.
C18_Witness ==
    \E s, t \in Scans :
        /\ s # t
        /\ scan[s].pc = "await"
        /\ scan[t].pc = "await"
        /\ LET f == <<s, CurrentElem(s)>>
               g == <<t, CurrentElem(t)>>
           IN /\ fetch[f].conn = fetch[g].conn
              /\ fetch[f].promise = "rejected"
              /\ fetch[g].promise = "rejected"
              /\ fetch[f].value = NewError("denied")
              /\ fetch[g].value = NewError("denied")
              /\ ~Attached(f)
              /\ ~Attached(g)

\* C19: a settled fetch, however it settled, has no data listener of its
\* own attached to its connection.
C19_SettledHasNoListener ==
    \A f \in DOMAIN fetch : Settled(f) => ~Attached(f)

\* C20: within one scan the elements are handled one at a time in document
\* order.  At most one fetch of the scan is pending; a fetch has been issued
\* for an element only if the fetch of every earlier valid element of the
\* scan has settled; and while a fetch is pending no later element has been
\* touched by the scan (with no other scan running, later elements are as
\* the page gave them).
C20_OneAtATime ==
    \A s \in Scans :
        /\ Cardinality({i \in ElemIdx : fetch[<<s, i>>].promise = "pending"}) <= 1
        /\ \A i, j \in ElemIdx :
            ( /\ i < j
              /\ fetch[<<s, j>>].pc # "idle"
              /\ \E p \in 1..Len(scan[s].elements) : scan[s].elements[p] = i
              /\ ValidSrc(doc[i].p2pSrc) )
            => Settled(<<s, i>>)
        /\ \A i, j \in ElemIdx :
            (i < j /\ fetch[<<s, i>>].promise = "pending")
            => /\ fetch[<<s, j>>].pc = "idle"
               /\ (\A t \in Scans \ {s} : scan[t].pc = "idle")
                    => dom[j] = InitialDom(doc)[j]

\* C20 witness: a scan has rendered its first element after that element's
\* fetch resolved, and only then issued the fetch of the second, which is
\* pending.
C20_Witness ==
    \E s \in Scans :
        /\ scan[s].pc = "await"
        /\ scan[s].pos = 2
        /\ fetch[<<s, scan[s].elements[1]>>].promise = "resolved"
        /\ dom[scan[s].elements[1]].title = ""
        /\ dom[scan[s].elements[1]].src = DataPng
        /\ fetch[<<s, scan[s].elements[2]>>].promise = "pending"
        /\ dom[scan[s].elements[2]].title = "Loading from P2P..."

====
